---- MODULE Spec2Model ----
(***************************************************************************)
(* speedtest_avg.py: a command line program that keeps a JSON log of       *)
(* speedtests and prints their averages over a window of days.             *)
(*                                                                         *)
(* One invocation of main() is a process that walks through the calls of   *)
(* main() in program order.  The log file and the wall clock are shared by *)
(* all invocations.  Spec runs the invocations one after the other,        *)
(* SpecConc lets two invocations overlap.                                  *)
(*                                                                         *)
(* Units: time in whole seconds; ping, download and upload of a record in  *)
(* hundredths (the code rounds them to 2 decimals); the provider's raw     *)
(* ping in thousandths of a millisecond and its raw rates in bits/second.  *)
(* The --format and --verbose options only change what is printed and the  *)
(* --log-file option only names the file: the model keeps the default      *)
(* format and one log file.                                                *)
(***************************************************************************)
EXTENDS Integers, Sequences, FiniteSets, TLC

VARIABLES now, file, pc, args, log_data, rec, exitCode, fault, trace, warned,
          fileAtStart, loaded, provided, attempts, writes, reportArg,
          reportAt, report, staleBy, lastWriter, afterReset, pred

vars == <<now, file, pc, args, log_data, rec, exitCode, fault, trace, warned,
          fileAtStart, loaded, provided, attempts, writes, reportArg,
          reportAt, report, staleBy, lastWriter, afterReset, pred>>

----------------------------------------------------------------------------
(* Program constants *)

DEFAULT_NUM_DAYS == 7
LOG_VERSION == "1.0"
MEGA_FACTOR == 1000000
DAY_LENGTH == 86400

EX_OK == 0
EX_NOINPUT == 66
EX_UNAVAILABLE == 69
EX_CANTCREAT == 73
EX_TEMPFAIL == 75
EX_NOPERM == 77
(* exit status of the interpreter when an exception reaches the top level *)
EX_UNCAUGHT == 1
(* "the process has not exited" *)
NoExit == 0 - 1

----------------------------------------------------------------------------
(* Bounds and input sets *)

(* most records a log holds when an invocation with --test starts *)
MaxTests == 3

(* the last instant of the clock in SpecConc *)
ConcHorizon == 1

Procs == {"p1", "p2"}

(* the instants the clock takes: they put a record exactly on, and one     *)
(* second inside, the edge of a window of 1 day and of 7 days              *)
TimePoints == {0, 1, DAY_LENGTH, DEFAULT_NUM_DAYS * DAY_LENGTH}

(* what the provider answers: a result (raw units), or one of its errors *)
ProviderOutcomes ==
    { [kind |-> "ok", ping |-> 12344, download |-> 10004000, upload |-> 5006000],
      [kind |-> "ok", ping |-> 12346, download |-> 0, upload |-> 5006000],
      [kind |-> "ok", ping |-> 12344, download |-> 0, upload |-> 0],
      [kind |-> "ConfigRetrievalError", ping |-> 0, download |-> 0, upload |-> 0],
      [kind |-> "SpeedtestException", ping |-> 0, download |-> 0, upload |-> 0] }

(* args.num_days: the int default, or the string the command line gave *)
NumDaysChoices ==
    { [str |-> FALSE, val |-> DEFAULT_NUM_DAYS],
      [str |-> TRUE, val |-> 1] }

ArgSet ==
    [reset : BOOLEAN, test : BOOLEAN, silent : BOOLEAN, num_days : NumDaysChoices]

NoArgs ==
    [reset |-> FALSE, test |-> FALSE, silent |-> FALSE,
     num_days |-> [str |-> FALSE, val |-> DEFAULT_NUM_DAYS]]

NoRecord == [timestamp |-> -1, ping |-> -1, download |-> -1, upload |-> -1]
NoReport == [count |-> -1, ping |-> -1, download |-> -1, upload |-> -1]
NoOutcome == [kind |-> "none", ping |-> 0, download |-> 0, upload |-> 0]
NoTime == 0 - 1
NoDoc == [version |-> "", tests |-> <<>>]

AbsentFile == [kind |-> "absent", version |-> "", tests |-> <<>>]
CorruptFile == [kind |-> "corrupt", version |-> "", tests |-> <<>>]

OldRecord == [timestamp |-> 0, ping |-> 2050, download |-> 4000, upload |-> 1000]

(* the log files an invocation can find when the first one starts *)
InitialFiles ==
    { AbsentFile, CorruptFile,
      [kind |-> "doc", version |-> "0.9", tests |-> <<OldRecord>>],
      [kind |-> "doc", version |-> LOG_VERSION, tests |-> <<>>] }

----------------------------------------------------------------------------
(* Pure helpers *)

(* round(n/d) to the nearest integer, ties to even: Python 3's round() *)
Round(n, d) ==
    LET q == n \div d
        r == n % d
    IN  IF 2 * r < d THEN q
        ELSE IF 2 * r > d THEN q + 1
        ELSE IF q % 2 = 0 THEN q ELSE q + 1

RECURSIVE SumField(_, _)
SumField(tests, f) ==
    IF tests = <<>> THEN 0 ELSE tests[1][f] + SumField(Tail(tests), f)

----------------------------------------------------------------------------
(* The functions of speedtest_avg.py, as operators on values *)

(* main(), lines 34-43: the call that follows `step` under options a *)
MainNext_reportFirst(step, a) ==
    CASE step = "resolve" -> IF a.reset THEN "clear" ELSE "load"
      [] step = "clear"   -> "load"
      [] step = "load"    -> IF ~a.silent THEN "report"
                             ELSE IF a.test THEN "test" ELSE "exit"
      [] step = "report"  -> IF a.test THEN "test" ELSE "exit"
      [] step = "test"    -> "persist"
      [] step = "persist" -> "exit"
      [] OTHER            -> "exit"

MainNext(step, a) ==
    CASE step = "resolve" -> IF a.reset THEN "clear" ELSE "load"
      [] step = "clear"   -> "load"
      [] step = "load"    -> IF a.test THEN "test"
                             ELSE IF ~a.silent THEN "report" ELSE "exit"
      [] step = "test"    -> "persist"
      [] step = "persist" -> IF ~a.silent THEN "report" ELSE "exit"
      [] step = "report"  -> "exit"
      [] OTHER            -> "exit"

(* clear_log: os.remove; a missing file is not an error.  `denied` is the  *)
(* file system refusing the operation on an existing file.                 *)
clear_log_tempfail(f, denied) ==
    IF f.kind = "absent" THEN [file |-> f, exit |-> NoExit]
    ELSE IF denied THEN [file |-> f, exit |-> EX_TEMPFAIL]
    ELSE [file |-> AbsentFile, exit |-> NoExit]

clear_log(f, denied) ==
    IF f.kind = "absent" THEN [file |-> f, exit |-> NoExit]
    ELSE IF denied THEN [file |-> f, exit |-> EX_NOPERM]
    ELSE [file |-> AbsentFile, exit |-> NoExit]

FreshLog == [version |-> LOG_VERSION, tests |-> <<>>]

(* get_log_data: a missing file gives a fresh document, an unreadable one  *)
(* exits, one that is no JSON raises; a version mismatch only prints.      *)
get_log_data_strict(f, denied) ==
    IF f.kind = "absent"
    THEN [exit |-> NoExit, fault |-> "none", log_data |-> FreshLog, warned |-> FALSE]
    ELSE IF denied
    THEN [exit |-> EX_NOPERM, fault |-> "none", log_data |-> NoDoc, warned |-> FALSE]
    ELSE IF f.kind = "corrupt"
    THEN [exit |-> EX_UNCAUGHT, fault |-> "JSONDecodeError", log_data |-> NoDoc,
          warned |-> FALSE]
    ELSE IF f.version # LOG_VERSION
    THEN [exit |-> EX_NOINPUT, fault |-> "none", log_data |-> NoDoc, warned |-> TRUE]
    ELSE [exit |-> NoExit, fault |-> "none",
          log_data |-> [version |-> f.version, tests |-> f.tests], warned |-> FALSE]

get_log_data(f, denied) ==
    IF f.kind = "absent"
    THEN [exit |-> NoExit, fault |-> "none", log_data |-> FreshLog, warned |-> FALSE]
    ELSE IF denied
    THEN [exit |-> EX_NOPERM, fault |-> "none", log_data |-> NoDoc, warned |-> FALSE]
    ELSE IF f.kind = "corrupt"
    THEN [exit |-> EX_UNCAUGHT, fault |-> "JSONDecodeError", log_data |-> NoDoc,
          warned |-> FALSE]
    ELSE [exit |-> NoExit, fault |-> "none",
          log_data |-> [version |-> f.version, tests |-> f.tests],
          warned |-> (f.version # LOG_VERSION)]

(* run_speedtest: o is what the provider did, t the clock at the end *)
run_speedtest_lenient(o, t) ==
    IF o.kind = "ConfigRetrievalError"
    THEN [exit |-> EX_TEMPFAIL, fault |-> "none", rec |-> NoRecord]
    ELSE IF o.kind # "ok"
    THEN [exit |-> EX_UNCAUGHT, fault |-> o.kind, rec |-> NoRecord]
    ELSE [exit |-> NoExit, fault |-> "none",
          rec |-> [timestamp |-> t,
                   ping |-> Round(o.ping, 10),
                   download |-> Round(o.download * 100, MEGA_FACTOR),
                   upload |-> Round(o.upload * 100, MEGA_FACTOR)]]

run_speedtest(o, t) ==
    IF o.kind = "ConfigRetrievalError"
    THEN [exit |-> EX_TEMPFAIL, fault |-> "none", rec |-> NoRecord]
    ELSE IF o.kind # "ok"
    THEN [exit |-> EX_UNCAUGHT, fault |-> o.kind, rec |-> NoRecord]
    ELSE IF o.download = 0 /\ o.upload = 0
    THEN [exit |-> EX_UNAVAILABLE, fault |-> "none", rec |-> NoRecord]
    ELSE [exit |-> NoExit, fault |-> "none",
          rec |-> [timestamp |-> t,
                   ping |-> Round(o.ping, 10),
                   download |-> Round(o.download * 100, MEGA_FACTOR),
                   upload |-> Round(o.upload * 100, MEGA_FACTOR)]]

(* write_log: open(.., 'w') and write the whole document *)
write_log_truncating(doc, f, denied) ==
    IF denied THEN [file |-> [kind |-> "doc", version |-> doc.version, tests |-> <<>>],
                    exit |-> EX_CANTCREAT]
    ELSE [file |-> [kind |-> "doc", version |-> doc.version, tests |-> doc.tests],
          exit |-> NoExit]

write_log_appending(doc, f, denied) ==
    IF denied THEN [file |-> f, exit |-> EX_CANTCREAT]
    ELSE [file |-> [kind |-> "doc", version |-> doc.version,
                    tests |-> Append(f.tests, doc.tests[Len(doc.tests)])],
          exit |-> NoExit]

write_log(doc, f, denied) ==
    IF denied THEN [file |-> f, exit |-> EX_CANTCREAT]
    ELSE [file |-> [kind |-> "doc", version |-> doc.version, tests |-> doc.tests],
          exit |-> NoExit]

(* the records the loop of show_averages adds up, for an int num_days n *)
Matched(tests, n, t) ==
    SelectSeq(tests, LAMBDA r : t - r.timestamp < n * DAY_LENGTH)

(* lines 140-157, for an int num_days n *)
Averages(tests, n, t) ==
    LET used == Matched(tests, n, t)
        k == Len(used)
    IN  IF k = 0
        THEN [exit |-> EX_UNCAUGHT, fault |-> "ZeroDivisionError", out |-> NoReport]
        ELSE [exit |-> NoExit, fault |-> "none",
              out |-> [count |-> k,
                       ping |-> Round(SumField(used, "ping"), k),
                       download |-> Round(SumField(used, "download"), k),
                       upload |-> Round(SumField(used, "upload"), k)]]

(* show_averages: a num_days given on the command line is a str, and       *)
(* int < str raises TypeError at the first record                          *)
show_averages_noguard(tests, num_days, t) ==
    IF num_days.str
    THEN [exit |-> EX_UNCAUGHT, fault |-> "TypeError", out |-> NoReport]
    ELSE Averages(tests, num_days.val, t)

show_averages(tests, num_days, t) ==
    IF Len(tests) = 0
    THEN [exit |-> EX_NOINPUT, fault |-> "none", out |-> NoReport]
    ELSE IF num_days.str
    THEN [exit |-> EX_UNCAUGHT, fault |-> "TypeError", out |-> NoReport]
    ELSE Averages(tests, num_days.val, t)

----------------------------------------------------------------------------
(* The state machine *)

(* the invocations of Spec come from one shell, one after the other *)
SeqProcs == {"p1"}

Init ==
    /\ now = 0
    /\ file \in InitialFiles
    /\ pc = [p \in Procs |-> "idle"]
    /\ args = [p \in Procs |-> NoArgs]
    /\ log_data = [p \in Procs |-> NoDoc]
    /\ rec = [p \in Procs |-> NoRecord]
    /\ exitCode = [p \in Procs |-> NoExit]
    /\ fault = [p \in Procs |-> "none"]
    /\ trace = [p \in Procs |-> <<>>]
    /\ warned = [p \in Procs |-> FALSE]
    /\ fileAtStart = [p \in Procs |-> AbsentFile]
    /\ loaded = [p \in Procs |-> <<>>]
    /\ provided = [p \in Procs |-> NoOutcome]
    /\ attempts = [p \in Procs |-> 0]
    /\ writes = [p \in Procs |-> 0]
    /\ reportArg = [p \in Procs |-> <<>>]
    /\ reportAt = [p \in Procs |-> NoTime]
    /\ report = [p \in Procs |-> NoReport]
    /\ staleBy = [p \in Procs |-> "none"]
    /\ lastWriter = "none"
    /\ afterReset = FALSE
    /\ pred = [p \in Procs |-> FALSE]

(* the wall clock moves on *)
Tick ==
    /\ \E t \in TimePoints : t > now /\ now' = t
    /\ UNCHANGED <<file, pc, args, log_data, rec, exitCode, fault, trace, warned,
                   fileAtStart, loaded, provided, attempts, writes, reportArg,
                   reportAt, report, staleBy, lastWriter, afterReset, pred>>

(* the process ends with status `code`; tr is its trace at that point.     *)
(* afterReset: the invocation that ended last was a --reset without --test *)
(* that found a log and got past clear_log                                 *)
Done(p, code, flt, tr) ==
    /\ pc' = [pc EXCEPT ![p] = "done"]
    /\ exitCode' = [exitCode EXCEPT ![p] = code]
    /\ fault' = [fault EXCEPT ![p] = flt]
    /\ afterReset' = ( /\ args[p].reset /\ ~args[p].test
                        /\ fileAtStart[p].kind # "absent"
                        /\ \E i \in 1..Len(tr) : tr[i] = "load" )

(* the process goes on with the next call of main() *)
Goto(p, step) ==
    /\ pc' = [pc EXCEPT ![p] = step]
    /\ UNCHANGED <<exitCode, fault, afterReset>>

(* line 33: a new invocation parses its options *)
Start(p) ==
    /\ pc[p] \in {"idle", "done"}
    /\ \E a \in ArgSet :
        /\ a.test => Len(file.tests) < MaxTests
        /\ args' = [args EXCEPT ![p] = a]
    /\ pc' = [pc EXCEPT ![p] = "resolve"]
    /\ log_data' = [log_data EXCEPT ![p] = NoDoc]
    /\ rec' = [rec EXCEPT ![p] = NoRecord]
    /\ exitCode' = [exitCode EXCEPT ![p] = NoExit]
    /\ fault' = [fault EXCEPT ![p] = "none"]
    /\ trace' = [trace EXCEPT ![p] = <<"parse">>]
    /\ warned' = [warned EXCEPT ![p] = FALSE]
    /\ fileAtStart' = [fileAtStart EXCEPT ![p] = file]
    /\ loaded' = [loaded EXCEPT ![p] = <<>>]
    /\ provided' = [provided EXCEPT ![p] = NoOutcome]
    /\ attempts' = [attempts EXCEPT ![p] = 0]
    /\ writes' = [writes EXCEPT ![p] = 0]
    /\ reportArg' = [reportArg EXCEPT ![p] = <<>>]
    /\ reportAt' = [reportAt EXCEPT ![p] = NoTime]
    /\ report' = [report EXCEPT ![p] = NoReport]
    /\ staleBy' = [staleBy EXCEPT ![p] = "none"]
    /\ pred' = [pred EXCEPT ![p] = afterReset]
    /\ UNCHANGED <<now, file, lastWriter, afterReset>>

(* an invocation that starts when no other one is running *)
SeqStart(p) ==
    /\ \A q \in Procs \ {p} : pc[q] \in {"idle", "done"}
    /\ Start(p)

(* one of two invocations with --test, -n left at its default, that may    *)
(* overlap each other                                                      *)
ConcStart(p) ==
    /\ pc[p] = "idle"
    /\ Start(p)
    /\ args'[p].test /\ ~args'[p].num_days.str

(* line 34 *)
ValidateLogFile(p) ==
    /\ pc[p] = "resolve"
    /\ trace' = [trace EXCEPT ![p] = Append(@, "resolve")]
    /\ Goto(p, MainNext("resolve", args[p]))
    /\ UNCHANGED <<now, file, args, log_data, rec, warned, fileAtStart, loaded,
                   provided, attempts, writes, reportArg, reportAt, report, staleBy,
                   lastWriter, pred>>

(* lines 35-36 *)
ClearLog(p) ==
    /\ pc[p] = "clear"
    /\ \E denied \in BOOLEAN :
        LET r == clear_log(file, denied)
            tr == Append(trace[p], "clear")
        IN  /\ file' = r.file
            /\ trace' = [trace EXCEPT ![p] = tr]
            /\ IF r.exit # NoExit
               THEN Done(p, r.exit, "none", tr)
               ELSE Goto(p, MainNext("clear", args[p]))
    /\ UNCHANGED <<now, args, log_data, rec, warned, fileAtStart, loaded,
                   provided, attempts, writes, reportArg, reportAt, report, staleBy,
                   lastWriter, pred>>

(* line 37 *)
GetLogData(p) ==
    /\ pc[p] = "load"
    /\ \E denied \in BOOLEAN :
        LET r == get_log_data(file, denied)
            tr == Append(trace[p], "load")
        IN  /\ log_data' = [log_data EXCEPT ![p] = r.log_data]
            /\ loaded' = [loaded EXCEPT ![p] = r.log_data.tests]
            /\ warned' = [warned EXCEPT ![p] = r.warned]
            /\ trace' = [trace EXCEPT ![p] = tr]
            /\ IF r.exit # NoExit
               THEN Done(p, r.exit, r.fault, tr)
               ELSE Goto(p, MainNext("load", args[p]))
    /\ UNCHANGED <<now, file, args, rec, fileAtStart, provided, attempts, writes,
                   reportArg, reportAt, report, staleBy, lastWriter, pred>>

(* line 39: the measurement and the append to the in-memory list *)
RunSpeedtest(p) ==
    /\ pc[p] = "test"
    /\ \E o \in ProviderOutcomes :
        LET r == run_speedtest(o, now)
            tr == Append(trace[p], "test")
        IN  /\ provided' = [provided EXCEPT ![p] = o]
            /\ attempts' = [attempts EXCEPT ![p] = @ + 1]
            /\ trace' = [trace EXCEPT ![p] = tr]
            /\ rec' = [rec EXCEPT ![p] = r.rec]
            /\ IF r.exit # NoExit
               THEN /\ Done(p, r.exit, r.fault, tr)
                    /\ UNCHANGED log_data
               ELSE /\ log_data' = [log_data EXCEPT ![p].tests = Append(@, r.rec)]
                    /\ Goto(p, MainNext("test", args[p]))
    /\ UNCHANGED <<now, file, args, warned, fileAtStart, loaded, writes,
                   reportArg, reportAt, report, staleBy, lastWriter, pred>>

(* line 40 *)
WriteLog(p) ==
    /\ pc[p] = "persist"
    /\ \E denied \in BOOLEAN :
        LET r == write_log(log_data[p], file, denied)
            tr == Append(trace[p], "persist")
        IN  /\ file' = r.file
            /\ trace' = [trace EXCEPT ![p] = tr]
            /\ IF r.exit # NoExit
               THEN /\ Done(p, r.exit, "none", tr)
                    /\ UNCHANGED <<writes, staleBy, lastWriter>>
               ELSE /\ writes' = [writes EXCEPT ![p] = @ + 1]
                    /\ lastWriter' = p
                    /\ staleBy' = [q \in Procs |->
                                     IF q # p /\ pc[q] \in {"test", "persist"}
                                     THEN p ELSE staleBy[q]]
                    /\ Goto(p, MainNext("persist", args[p]))
    /\ UNCHANGED <<now, args, log_data, rec, warned, fileAtStart, loaded,
                   provided, attempts, reportArg, reportAt, report, pred>>

(* lines 41-42 *)
ShowAverages(p) ==
    /\ pc[p] = "report"
    /\ LET r == show_averages(log_data[p].tests, args[p].num_days, now)
           tr == Append(trace[p], "report")
       IN  /\ reportArg' = [reportArg EXCEPT ![p] = log_data[p].tests]
           /\ reportAt' = [reportAt EXCEPT ![p] = now]
           /\ report' = [report EXCEPT ![p] = r.out]
           /\ trace' = [trace EXCEPT ![p] = tr]
           /\ IF r.exit # NoExit
              THEN Done(p, r.exit, r.fault, tr)
              ELSE Goto(p, MainNext("report", args[p]))
    /\ UNCHANGED <<now, file, args, log_data, rec, warned, fileAtStart, loaded,
                   provided, attempts, writes, staleBy, lastWriter, pred>>

(* line 43 *)
Exit(p) ==
    /\ pc[p] = "exit"
    /\ trace' = [trace EXCEPT ![p] = Append(@, "exit")]
    /\ Done(p, EX_OK, "none", Append(trace[p], "exit"))
    /\ UNCHANGED <<now, file, args, log_data, rec, warned, fileAtStart, loaded,
                   provided, attempts, writes, reportArg, reportAt, report, staleBy,
                   lastWriter, pred>>

Step(p) ==
    \/ ValidateLogFile(p)
    \/ ClearLog(p)
    \/ GetLogData(p)
    \/ RunSpeedtest(p)
    \/ WriteLog(p)
    \/ ShowAverages(p)
    \/ Exit(p)

Next ==
    \/ Tick
    \/ \E p \in SeqProcs : SeqStart(p) \/ Step(p)

Spec == Init /\ [][Next]_vars

NextConc ==
    \/ Tick /\ now' <= ConcHorizon
    \/ \E p \in Procs : ConcStart(p) \/ Step(p)

SpecConc == Init /\ [][NextConc]_vars

----------------------------------------------------------------------------
(* Properties *)

Has(tr, step) == \E i \in 1..Len(tr) : tr[i] = step

Count(tr, step) == Cardinality({i \in 1..Len(tr) : tr[i] = step})

IsPrefix(s, t) == Len(s) <= Len(t) /\ SubSeq(t, 1, Len(s)) = s

Last(tr) == tr[Len(tr)]

Running(p) == pc[p] # "idle"

Ended(p) == pc[p] = "done"

(* the steps of a whole invocation under options a, in the fixed order *)
FullTrace(a) ==
    <<"parse", "resolve">>
    \o (IF a.reset THEN <<"clear">> ELSE <<>>)
    \o <<"load">>
    \o (IF a.test THEN <<"test", "persist">> ELSE <<>>)
    \o (IF ~a.silent THEN <<"report">> ELSE <<>>)
    \o <<"exit">>

(* C1: the steps an invocation has taken are always an initial part of the *)
(* fixed order parse, resolve, [clear], load, [test+append, persist],      *)
(* [report], exit; a report after --test is computed over the loaded list  *)
(* with the new record at its end; and an invocation ends with EX_OK only  *)
(* after all of its steps, with no fault.                                  *)
C1_FixedOrder ==
    \A p \in Procs :
        Running(p) =>
            /\ IsPrefix(trace[p], FullTrace(args[p]))
            /\ (Has(trace[p], "report") /\ args[p].test) =>
                   /\ rec[p] # NoRecord
                   /\ writes[p] = 1
                   /\ reportArg[p] = Append(loaded[p], rec[p])
            /\ (Ended(p) /\ exitCode[p] = EX_OK) =>
                   /\ trace[p] = FullTrace(args[p])
                   /\ fault[p] = "none"

C1_Witness ==
    \E p \in Procs :
        /\ Ended(p) /\ exitCode[p] = EX_OK
        /\ args[p].reset /\ args[p].test /\ ~args[p].silent
        /\ Len(trace[p]) = 8
        /\ report[p].count = 1

(* the invocation ended in `step` because the file system refused it *)
PermFailure(p, step) ==
    /\ Ended(p) /\ fault[p] = "none"
    /\ Last(trace[p]) = step
    /\ step \in {"clear", "load", "persist"}

OtherCodes == {EX_OK, EX_UNAVAILABLE, EX_TEMPFAIL, EX_NOINPUT}

(* C2, as claimed: a permission failure in clear, load or persist always   *)
(* ends the process with the one code EX_NOPERM.                           *)
C2_Original ==
    \A p \in Procs :
        \A step \in {"clear", "load", "persist"} :
            PermFailure(p, step) => exitCode[p] = EX_NOPERM

(* C2: a permission failure in clear or load ends the process with         *)
(* EX_NOPERM, one in persist ends it with EX_CANTCREAT, and neither code   *)
(* is the code of success, service-unavailable, temporary-failure or       *)
(* no-input.                                                               *)
C2_PermissionCodes ==
    \A p \in Procs :
        /\ PermFailure(p, "clear") => exitCode[p] = EX_NOPERM
        /\ PermFailure(p, "load") => exitCode[p] = EX_NOPERM
        /\ PermFailure(p, "persist") => exitCode[p] = EX_CANTCREAT
        /\ \A step \in {"clear", "load", "persist"} :
               PermFailure(p, step) => exitCode[p] \notin OtherCodes

C2_Witness ==
    \E p \in Procs :
        /\ PermFailure(p, "persist")
        /\ exitCode[p] = EX_CANTCREAT
        /\ file = fileAtStart[p]

(* C3: a report over an empty list ends the process with EX_NOINPUT and no *)
(* fault; and a plain invocation (no --reset, --test, --silent) that       *)
(* follows a --reset of an existing log ends with EX_NOINPUT.              *)
C3_EmptyIsNoInput ==
    \A p \in Procs :
        /\ (Has(trace[p], "report") /\ reportArg[p] = <<>>) =>
               Ended(p) /\ exitCode[p] = EX_NOINPUT /\ fault[p] = "none"
        /\ ( /\ Ended(p) /\ pred[p]
             /\ ~args[p].reset /\ ~args[p].test /\ ~args[p].silent ) =>
               /\ exitCode[p] = EX_NOINPUT
               /\ Has(trace[p], "report") /\ reportArg[p] = <<>>

C3_Witness ==
    \E p \in Procs :
        /\ Ended(p) /\ pred[p]
        /\ ~args[p].reset /\ ~args[p].test /\ ~args[p].silent
        /\ exitCode[p] = EX_NOINPUT

(* C4, as claimed: a report over a list that is not empty but has no       *)
(* record younger than the window ends the process with EX_NOINPUT.        *)
C4_NoUsableIsNoInput ==
    \A p \in Procs :
        ( /\ Has(trace[p], "report") /\ reportArg[p] # <<>>
          /\ ~args[p].num_days.str
          /\ Matched(reportArg[p], args[p].num_days.val, reportAt[p]) = <<>> ) =>
            Ended(p) /\ exitCode[p] = EX_NOINPUT /\ fault[p] = "none"

(* the age of the newest record of a list that is not empty *)
NewestAge(tests, t) ==
    LET newest == CHOOSE r \in {tests[i] : i \in 1..Len(tests)} :
                      \A i \in 1..Len(tests) : tests[i].timestamp <= r.timestamp
    IN  t - newest.timestamp

(* C5, as claimed: over a list that is not empty, with a window of at      *)
(* least the age of the newest record, the average completes, its count is *)
(* the number of records younger than the window, at most the length of    *)
(* the list, and the three values are the rounded means of those records.  *)
C5_WindowedAverage ==
    \A p \in Procs :
        ( /\ Has(trace[p], "report") /\ reportArg[p] # <<>>
          /\ ~args[p].num_days.str
          /\ args[p].num_days.val * DAY_LENGTH >= NewestAge(reportArg[p], reportAt[p]) ) =>
            LET n == args[p].num_days.val
                used == SelectSeq(reportArg[p],
                                  LAMBDA r : reportAt[p] - r.timestamp < n * DAY_LENGTH)
                k == Len(used)
            IN  /\ fault[p] = "none"
                /\ report[p].count = k
                /\ k <= Len(reportArg[p])
                /\ k > 0
                /\ report[p].ping = Round(SumField(used, "ping"), k)
                /\ report[p].download = Round(SumField(used, "download"), k)
                /\ report[p].upload = Round(SumField(used, "upload"), k)

(* C6, as claimed: with -n N on the command line the report is the report  *)
(* of a window of N days, and nothing fails because of the option.         *)
C6_NumDaysOption ==
    \A p \in Procs :
        ( /\ Has(trace[p], "report") /\ args[p].num_days.str ) =>
            LET want == show_averages(reportArg[p],
                                      [str |-> FALSE, val |-> args[p].num_days.val],
                                      reportAt[p])
            IN  /\ fault[p] = want.fault
                /\ report[p] = want.out

(* C7: an invocation without --reset leaves the stored list as it found    *)
(* it, or, once its --test has measured and persisted, as it found it with *)
(* the one new record at the end; it ends with EX_OK after --test only if  *)
(* it persisted; and --test --silent on an absent log that ends with EX_OK *)
(* leaves a log of exactly one record.                                     *)
C7_AppendOnly ==
    \A p \in Procs :
        /\ (Running(p) /\ ~args[p].reset) =>
               IF writes[p] = 0
               THEN file = fileAtStart[p]
               ELSE /\ writes[p] = 1
                    /\ rec[p] # NoRecord
                    /\ file.kind = "doc"
                    /\ file.tests = Append(fileAtStart[p].tests, rec[p])
        /\ (Ended(p) /\ args[p].test /\ exitCode[p] = EX_OK) => writes[p] = 1
        /\ ( /\ Ended(p) /\ exitCode[p] = EX_OK
             /\ args[p].test /\ args[p].silent
             /\ fileAtStart[p].kind = "absent" ) =>
               file.kind = "doc" /\ file.tests = <<rec[p]>>

C7_Witness ==
    \E p \in Procs :
        /\ Ended(p) /\ ~args[p].reset /\ writes[p] = 1
        /\ Len(fileAtStart[p].tests) >= 2
        /\ Len(file.tests) = Len(fileAtStart[p].tests) + 1

Blocked(o) == o.kind = "ok" /\ o.download = 0 /\ o.upload = 0

(* C8: when the provider reports zero download and zero upload the process *)
(* ends with EX_UNAVAILABLE, when it cannot retrieve its configuration     *)
(* with EX_TEMPFAIL; in both cases after one attempt, with no record       *)
(* appended, no persist and no report, and the file left as clear_log left *)
(* it.  No other measurement ends with either code.                        *)
C8_FailedMeasurement ==
    \A p \in Procs :
        /\ (Has(trace[p], "test") /\ Blocked(provided[p])) =>
               Ended(p) /\ exitCode[p] = EX_UNAVAILABLE
        /\ (Has(trace[p], "test") /\ provided[p].kind = "ConfigRetrievalError") =>
               Ended(p) /\ exitCode[p] = EX_TEMPFAIL
        /\ (Ended(p) /\ exitCode[p] \in {EX_UNAVAILABLE, EX_TEMPFAIL}) =>
               /\ Blocked(provided[p]) \/ provided[p].kind = "ConfigRetrievalError"
               /\ attempts[p] = 1
               /\ rec[p] = NoRecord
               /\ log_data[p].tests = loaded[p]
               /\ writes[p] = 0
               /\ ~Has(trace[p], "persist")
               /\ ~Has(trace[p], "report")
               /\ report[p] = NoReport
               /\ file = (IF args[p].reset THEN AbsentFile ELSE fileAtStart[p])
        /\ attempts[p] <= 1

C8_Witness ==
    \E p \in Procs :
        /\ Ended(p) /\ exitCode[p] = EX_UNAVAILABLE
        /\ ~args[p].silent
        /\ fileAtStart[p].tests # <<>>
        /\ file = fileAtStart[p]

(* the log the invocation found has a version that is not LOG_VERSION *)
Mismatch(p) == fileAtStart[p].kind = "doc" /\ fileAtStart[p].version # LOG_VERSION

(* C9: loading a log with another version warns, returns the document as   *)
(* stored and never ends the process; the later steps use the loaded       *)
(* records, a persist keeps the stored version, and the invocation can end *)
(* with EX_OK.                                                             *)
C9_VersionMismatch ==
    \A p \in Procs :
        /\ warned[p] =>
               /\ Mismatch(p) /\ ~args[p].reset
               /\ loaded[p] = fileAtStart[p].tests
               /\ log_data[p].version = fileAtStart[p].version
               /\ ~(Ended(p) /\ Last(trace[p]) = "load")
               /\ Has(trace[p], "report") =>
                      reportArg[p] = (IF args[p].test THEN Append(loaded[p], rec[p])
                                      ELSE loaded[p])
               /\ writes[p] = 1 =>
                      /\ file.tests = Append(loaded[p], rec[p])
                      /\ file.version = fileAtStart[p].version
        /\ ( /\ Mismatch(p) /\ ~args[p].reset /\ Has(trace[p], "load")
             /\ ~PermFailure(p, "load") ) => warned[p]

C9_Witness ==
    \E p \in Procs :
        /\ warned[p] /\ Ended(p) /\ exitCode[p] = EX_OK
        /\ args[p].test /\ ~args[p].silent
        /\ report[p].count = 1
        /\ Len(file.tests) = 2

(* C10: each invocation loads at most once and writes at most once; and    *)
(* when two invocations with --test both end with EX_OK, q having loaded   *)
(* before p persisted and persisted after it, the log is what q loaded     *)
(* plus q's record: p's record is not in it.                               *)
C10_LastWriterWins ==
    /\ \A p \in Procs : Count(trace[p], "load") <= 1 /\ writes[p] <= 1
    /\ \A p, q \in Procs :
        ( /\ p # q
          /\ Ended(p) /\ exitCode[p] = EX_OK /\ args[p].test
          /\ Ended(q) /\ exitCode[q] = EX_OK /\ args[q].test
          /\ staleBy[q] = p /\ lastWriter = q ) =>
            /\ writes[p] = 1 /\ writes[q] = 1
            /\ file.tests = Append(loaded[q], rec[q])
            /\ Len(file.tests) = Len(loaded[q]) + 1

C10_Witness ==
    \E p, q \in Procs :
        /\ p # q
        /\ Ended(p) /\ exitCode[p] = EX_OK /\ writes[p] = 1
        /\ Ended(q) /\ exitCode[q] = EX_OK /\ writes[q] = 1
        /\ staleBy[q] = p /\ lastWriter = q
        /\ loaded[p] = loaded[q]
        /\ rec[p] # rec[q]
        /\ file.tests = Append(loaded[q], rec[q])
        /\ ~\E i \in 1..Len(file.tests) : file.tests[i] = rec[p]

====
